---- MODULE Spec2Model ----
(***************************************************************************)
(* A model of logcatui: the match index (src/src/search/matches.rs), the   *)
(* quick-search state machine and viewport of App (src/src/app.rs).        *)
(*                                                                         *)
(* Texts are sequences of one-character strings.  An Option<T> is a        *)
(* sequence of length at most one: None is <<>>, Some(x) is <<x>>.         *)
(***************************************************************************)
EXTENDS Integers, Sequences, FiniteSets, TLC

\* ------------------------------------------------------------------ bounds
\* Largest line index of a record drawn for the pure match-index functions.
MaxLine == 3
\* Largest number of records in a drawn match index.
MaxMatches == 4

\* Largest number of rows of a drawn corpus.
MaxRows == 3
\* Largest number of rows of a corpus drawn for the navigation keys.
MaxNavRows == 2
\* Largest length of the typed query.
MaxQuery == 2
\* How far past the number of rows vertical_offset and the relative selection
\* may go: the Down handler would otherwise increase them without limit.
MaxOvershoot == 1
\* Width of the machine word (usize), scaled down.
UsizeBits == 8
\* Longest text handed to the text wrapper on its own.
MaxText == 9
\* Largest max_width handed to the text wrapper on its own.
MaxWidth == 4

\* ------------------------------------------------------ program constants
COLUMN_NUMBER == 6
TAG_COLUMN == 4
TAG_COLUMN_WIDTH == 18
RESERVED_ROWS == 4

VARIABLES
    m_matches,        \* matches.rs: the BTreeSet<MatchedLine> handed to a lookup
    m_index,          \* matches.rs: the line index handed to a lookup
    m_op,             \* which lookup has been applied ("none" before the call)
    m_result,         \* the Option<MatchedLine> the lookup returned
    w_text,           \* text_utils.rs: the text handed to the wrapper
    w_width,          \* text_utils.rs: the max_width handed to the wrapper
    w_op,             \* which wrapper function has been applied
    w_result,         \* what it returned: panic, indices, lines
    texts,            \* App.table.display_data[i].texts, the corpus
    wrapped,          \* App.table.display_data[i].wrapped
    mode,             \* App.quick_search.mode
    input,            \* App.quick_search.input
    results,          \* App.quick_search.results
    height,           \* App.height
    vertical_offset,  \* App.vertical_offset
    selected,         \* App.state.selected()
    row_heights,      \* App.row_heights
    column_offset,    \* App.table.column_offset
    viewport,         \* App.table.viewport
    pc,               \* "start" | "run" | "panic" | "quit"
    last              \* history: the last key handled, and for a search
                      \* jump the vertical_offset and selection before it

wvars == <<w_text, w_width, w_op, w_result>>
mvars == <<m_matches, m_index, m_op, m_result, w_text, w_width, w_op, w_result>>
avars == <<texts, wrapped, mode, input, results, height, vertical_offset,
           selected, row_heights, column_offset, viewport, pc, last>>
vars == <<m_matches, m_index, m_op, m_result, w_text, w_width, w_op, w_result, texts, wrapped, mode, input,
          results, height, vertical_offset, selected, row_heights,
          column_offset, viewport, pc, last>>

\* -------------------------------------------------------------- Option<T>
None == <<>>
Some(x) == <<x>>
is_some(o) == Len(o) = 1
unwrap(o) == o[1]

\* ------------------------------------------- matches.rs: derived orderings
\* MatchedPosition = (usize, usize): tuples compare lexicographically.
MatchedPosition_lt(p, q) == p[1] < q[1] \/ (p[1] = q[1] /\ p[2] < q[2])

MinPosition(S) == CHOOSE p \in S : \A q \in S : p = q \/ MatchedPosition_lt(p, q)

\* BTreeSet<MatchedPosition>: sets compare as their ascending sequences.
RECURSIVE Positions_lt(_, _)
Positions_lt(A, B) ==
    IF B = {} THEN FALSE
    ELSE IF A = {} THEN TRUE
    ELSE LET a == MinPosition(A)
             b == MinPosition(B)
         IN  IF MatchedPosition_lt(a, b) THEN TRUE
             ELSE IF MatchedPosition_lt(b, a) THEN FALSE
             ELSE Positions_lt(A \ {a}, B \ {b})

\* #[derive(Ord)] on MatchedColumn { index, positions }.
MatchedColumn_lt(a, b) ==
    a.index < b.index \/ (a.index = b.index /\ Positions_lt(a.positions, b.positions))

MinColumn(S) == CHOOSE c \in S : \A d \in S : c = d \/ MatchedColumn_lt(c, d)

\* #[derive(Ord)] on MatchedColumns { columns: BTreeSet<MatchedColumn> }.
RECURSIVE MatchedColumns_lt(_, _)
MatchedColumns_lt(A, B) ==
    IF B = {} THEN FALSE
    ELSE IF A = {} THEN TRUE
    ELSE LET a == MinColumn(A)
             b == MinColumn(B)
         IN  IF MatchedColumn_lt(a, b) THEN TRUE
             ELSE IF MatchedColumn_lt(b, a) THEN FALSE
             ELSE MatchedColumns_lt(A \ {a}, B \ {b})

\* #[derive(Ord)] on MatchedLine { index, columns }.
MatchedLine_lt(a, b) ==
    a.index < b.index \/ (a.index = b.index /\ MatchedColumns_lt(a.columns, b.columns))

MatchedLine_le(a, b) == a = b \/ MatchedLine_lt(a, b)

\* MatchedLine::new and Match::sentinel for MatchedLine.
MatchedLine_new(index, columns) == [index |-> index, columns |-> columns]
sentinel(index) == [index |-> index, columns |-> {}]

MatchedColumn_new(index, positions) == [index |-> index, positions |-> positions]

\* Range iterators of a BTreeSet<MatchedLine>: first and last element of the
\* part of the set the bounds select.
range_next(S) ==
    IF S = {} THEN None
    ELSE Some(CHOOSE m \in S : \A n \in S : MatchedLine_le(m, n))

range_next_back(S) ==
    IF S = {} THEN None
    ELSE Some(CHOOSE m \in S : \A n \in S : MatchedLine_le(n, m))

\* usize::MAX, scaled to UsizeBits bits.
USIZE_MAX == 2 ^ UsizeBits - 1

\* MatchedLines::iter: the records in the order of the BTreeSet
RECURSIVE iter(_)
iter(matches) ==
    IF matches = {} THEN <<>>
    ELSE LET first == unwrap(range_next(matches))
         IN  <<first>> \o iter(matches \ {first})

\* impl From<Vec<MatchedLine>> for MatchedLines
MatchedLines_from(lines) == { lines[k] : k \in DOMAIN lines }

\* ------------------------------------------- matches.rs: implementation
distance(a, b) == IF a < b THEN b - a ELSE IF a = b THEN 0 ELSE a - b

index_or_max(o) == IF is_some(o) THEN unwrap(o).index ELSE USIZE_MAX

\* nearest_match resolving a tie upwards
nearest_match_tie_up(matches, index) ==
    LET s == sentinel(index)
        lower == range_next_back({m \in matches : MatchedLine_le(m, s)})
        upper == range_next({m \in matches : MatchedLine_le(s, m)})
    IN  IF distance(s.index, index_or_max(lower)) < distance(s.index, index_or_max(upper))
        THEN lower
        ELSE upper

nearest_match(matches, index) ==
    LET s == sentinel(index)
        lower == range_next_back({m \in matches : MatchedLine_le(m, s)})
        upper == range_next({m \in matches : MatchedLine_le(s, m)})
    IN  IF distance(s.index, index_or_max(lower)) <= distance(s.index, index_or_max(upper))
        THEN lower
        ELSE upper

\* previous_match bounded by the sentinel of the following line
previous_match_inclusive(matches, index) ==
    range_next_back({m \in matches : MatchedLine_lt(m, sentinel(index + 1))})

previous_match(matches, index) ==
    range_next_back({m \in matches : MatchedLine_lt(m, sentinel(index))})

\* next_match starting at the sentinel of the line itself
next_match_inclusive(matches, index) ==
    range_next({m \in matches : MatchedLine_le(sentinel(index), m)})

next_match(matches, index) ==
    range_next({m \in matches : MatchedLine_le(sentinel(index + 1), m)})

\* exact_match that compares against the sentinel alone
exact_match_sentinel_only(matches, index) ==
    range_next({m \in matches :
                    /\ MatchedLine_le(sentinel(index), m)
                    /\ MatchedLine_le(m, sentinel(index))})

exact_match(matches, index) ==
    range_next({m \in matches :
                    /\ MatchedLine_le(sentinel(index), m)
                    /\ MatchedLine_lt(m, sentinel(index + 1))})

\* ---------------------------------------------------- usize arithmetic
\* Arithmetic on usize.  `of` tells whether the exact result left the range
\* of the type: the program then panics when it was built with overflow
\* checks (debug) and continues with the wrapped value `v` otherwise.
USIZE_RANGE == 2 ^ UsizeBits

usize_add(a, b) == [v |-> (a + b) % USIZE_RANGE, of |-> a + b >= USIZE_RANGE]

usize_sub(a, b) == [v |-> (a - b + USIZE_RANGE) % USIZE_RANGE, of |-> a < b]

saturating_sub(a, b) == IF a < b THEN 0 ELSE a - b

Min(a, b) == IF a <= b THEN a ELSE b

\* --------------------------------------------------------- the corpus
\* Row i of the corpus (0-based) and its column texts (0-based).
len == Len(texts)
text_of(line, column) == texts[line + 1][column + 1]
message_of(line) == texts[line + 1][COLUMN_NUMBER]

\* ------------------------------------------- app.rs: App::update_results
\* str::match_indices for a non-empty pattern: left-to-right scan for
\* non-overlapping occurrences, reported by their start offset.
\* The scan reporting overlapping occurrences as well
RECURSIVE match_indices_overlapping(_, _, _)
match_indices_overlapping(text, query, pos) ==
    IF pos + Len(query) > Len(text) THEN {}
    ELSE IF SubSeq(text, pos + 1, pos + Len(query)) = query
         THEN {pos} \cup match_indices_overlapping(text, query, pos + 1)
         ELSE match_indices_overlapping(text, query, pos + 1)

RECURSIVE match_indices_from(_, _, _)
match_indices_from(text, query, pos) ==
    IF pos + Len(query) > Len(text) THEN {}
    ELSE IF SubSeq(text, pos + 1, pos + Len(query)) = query
         THEN {pos} \cup match_indices_from(text, query, pos + Len(query))
         ELSE match_indices_from(text, query, pos + 1)

match_indices(text, query) == match_indices_from(text, query, 0)

matched_positions(text, query) ==
    { <<index, index + Len(query)>> : index \in match_indices(text, query) }

matched_columns(row, query) ==
    { MatchedColumn_new(column, matched_positions(row[column + 1], query)) :
        column \in { c \in 0..(Len(row) - 1) : matched_positions(row[c + 1], query) # {} } }

\* update_results storing one record for each matching column of a row
update_results_per_column(old_results, display_data, query) ==
    IF old_results = {}
    THEN UNION { { MatchedLine_new(line, {column}) :
                     column \in matched_columns(display_data[line + 1], query) } :
                 line \in 0..(Len(display_data) - 1) }
    ELSE {}

\* update_results keeping a record for every row
update_results_every_row(old_results, display_data, query) ==
    IF old_results = {}
    THEN { MatchedLine_new(line, matched_columns(display_data[line + 1], query)) :
             line \in 0..(Len(display_data) - 1) }
    ELSE {}

update_results(old_results, display_data, query) ==
    IF old_results = {}
    THEN { MatchedLine_new(line, matched_columns(display_data[line + 1], query)) :
             line \in { l \in 0..(Len(display_data) - 1) :
                          matched_columns(display_data[l + 1], query) # {} } }
    ELSE {}

\* quick.rs: State::update, the index it stores for the given input
State_update(query, cells) ==
    IF query = <<>>
    THEN {}
    ELSE { MatchedLine_new(line, matched_columns(cells[line + 1], query)) :
             line \in { l \in 0..(Len(cells) - 1) :
                          matched_columns(cells[l + 1], query) # {} } }

\* ------------------------------------------------ app.rs: the selection
\* App::selected
Selected == vertical_offset + (IF is_some(selected) THEN unwrap(selected) ELSE 0)

\* App::visible_range
visible_range == <<vertical_offset, usize_add(vertical_offset, height)>>

\* select going back to the top when it is handed no line
select_none_resets(line) ==
    IF is_some(line)
    THEN IF unwrap(line) >= visible_range[1] /\ unwrap(line) <= visible_range[2].v
         THEN [of |-> visible_range[2].of,
               vertical_offset |-> vertical_offset,
               selected |-> Some(unwrap(line) - vertical_offset)]
         ELSE [of |-> visible_range[2].of,
               vertical_offset |-> unwrap(line),
               selected |-> Some(0)]
    ELSE [of |-> FALSE, vertical_offset |-> 0, selected |-> Some(0)]

\* select re-anchoring the window without resetting the relative selection
select_keeps_selection(line) ==
    IF is_some(line)
    THEN IF unwrap(line) >= visible_range[1] /\ unwrap(line) <= visible_range[2].v
         THEN [of |-> visible_range[2].of,
               vertical_offset |-> vertical_offset,
               selected |-> Some(unwrap(line) - vertical_offset)]
         ELSE [of |-> visible_range[2].of,
               vertical_offset |-> unwrap(line),
               selected |-> selected]
    ELSE [of |-> FALSE, vertical_offset |-> vertical_offset, selected |-> selected]

\* App::select.  The result gives the new vertical_offset and selection,
\* and whether computing the visible range overflowed.
select(line) ==
    IF is_some(line)
    THEN IF unwrap(line) >= visible_range[1] /\ unwrap(line) <= visible_range[2].v
         THEN [of |-> visible_range[2].of,
               vertical_offset |-> vertical_offset,
               selected |-> Some(unwrap(line) - vertical_offset)]
         ELSE [of |-> visible_range[2].of,
               vertical_offset |-> unwrap(line),
               selected |-> Some(0)]
    ELSE [of |-> FALSE, vertical_offset |-> vertical_offset, selected |-> selected]

\* app.rs: closest and distance (the same distance as in matches.rs)
option_or_max(o) == IF is_some(o) THEN unwrap(o) ELSE USIZE_MAX

closest(target, lower, upper) ==
    LET ld == distance(target, option_or_max(lower))
        ud == distance(target, option_or_max(upper))
    IN  IF ld < ud THEN lower ELSE upper

map_index(o) == IF is_some(o) THEN Some(unwrap(o).index) ELSE None

\* App::jump_to_nearest_result: the line handed to select
nearest_result(matches) ==
    LET s == sentinel(Selected)
        lower == map_index(range_next_back({m \in matches : MatchedLine_le(m, s)}))
        upper == map_index(range_next({m \in matches : MatchedLine_le(s, m)}))
    IN  closest(Selected, lower, upper)

\* App::jump_to_next_result: whether advance_by(1) succeeded, and the line
\* handed to select when it did
next_result_range == { m \in results : MatchedLine_lt(sentinel(Selected), m) }

next_result_advanced == next_result_range # {}

\* jump_to_next_result wrapping around to the first match
next_result_wrapping ==
    LET rest == next_result_range \ {unwrap(range_next(next_result_range))}
    IN  map_index(range_next(IF rest = {} THEN results ELSE rest))

next_result ==
    map_index(range_next(next_result_range \ {unwrap(range_next(next_result_range))}))

\* jump_to_previous_result bounded by the sentinel of the following line
previous_result_inclusive ==
    map_index(range_next_back({m \in results : MatchedLine_lt(m, sentinel(Selected + 1))}))

\* App::jump_to_previous_result: the line handed to select
previous_result ==
    map_index(range_next_back({m \in results : MatchedLine_lt(m, sentinel(Selected))}))

\* App::get_search_results_for_line
get_search_results_for_line(line) ==
    range_next({m \in results :
                    /\ MatchedLine_le(sentinel(line), m)
                    /\ MatchedLine_lt(m, sentinel(line + 1))})

\* ------------------------------------------------------ text_utils.rs
\* UnicodeSegmentation::split_word_bound_indices, for texts of letters and
\* single spaces: a segment starts at offset 0 and wherever a letter meets
\* a space.
is_space(ch) == ch = " "

word_bound_set(text) ==
    { pos \in 0..(Len(text) - 1) :
        pos = 0 \/ is_space(text[pos]) # is_space(text[pos + 1]) }

RECURSIVE sorted(_)
sorted(S) ==
    IF S = {} THEN <<>>
    ELSE LET m == CHOOSE x \in S : \A y \in S : x <= y
         IN  <<m>> \o sorted(S \ {m})

split_word_bound_indices(text) == sorted(word_bound_set(text))

\* The loop of wrap_indices over the positions still to visit.
RECURSIVE wrap_loop(_, _, _, _, _)
wrap_loop(positions, max_width, lines, prev, width) ==
    IF positions = <<>> THEN lines
    ELSE LET pos == Head(positions)
         IN  IF pos > width
             THEN wrap_loop(Tail(positions), max_width,
                            IF is_some(prev) THEN Append(lines, unwrap(prev)) ELSE lines,
                            Some(pos), width + max_width)
             ELSE wrap_loop(Tail(positions), max_width, lines, Some(pos), width)

wrap_indices(text, max_width) ==
    wrap_loop(Append(split_word_bound_indices(text), Len(text)),
              max_width, <<>>, None, max_width)

seq_max(indices) ==
    IF indices = <<>> THEN 0
    ELSE CHOOSE x \in { indices[i] : i \in DOMAIN indices } :
            \A i \in DOMAIN indices : indices[i] <= x

\* The precondition assertion of split_string_at_indices.
split_string_at_indices_ok(s, indices) == seq_max(indices) < Len(s)

RECURSIVE split_loop(_, _, _)
split_loop(ms, indices, off) ==
    IF indices = <<>> THEN <<ms>>
    ELSE LET index == Head(indices)
         IN  <<SubSeq(ms, 1, index - off)>>
             \o split_loop(SubSeq(ms, index - off + 1, Len(ms)), Tail(indices), index)

split_string_at_indices(s, indices) == split_loop(s, indices, 0)

\* tui Text::from(&str) of a text without line breaks: str::lines() yields
\* the text itself, and nothing for the empty text.
Text_from(content) == IF content = <<>> THEN <<>> ELSE <<content>>

RECURSIVE Text_extend_all(_)
Text_extend_all(lines) ==
    IF lines = <<>> THEN <<>>
    ELSE Text_from(Head(lines)) \o Text_extend_all(Tail(lines))

\* create_text: whether an assertion failed, and the lines of the Text.
create_text(content, wrap_width) ==
    IF Len(content) > wrap_width
    THEN LET indices == wrap_indices(content, wrap_width)
         IN  IF indices = <<>> \/ ~split_string_at_indices_ok(content, indices)
             THEN [panic |-> TRUE, lines |-> <<>>]
             ELSE [panic |-> FALSE,
                   lines |-> Text_extend_all(split_string_at_indices(content, indices))]
    ELSE [panic |-> FALSE, lines |-> Text_from(content)]

\* ------------------------------------------------------ log_table.rs
RECURSIVE max_width_of(_, _)
max_width_of(display_data, column) ==
    IF display_data = <<>> THEN 0
    ELSE LET w == Len(Head(display_data)[column + 1])
             rest == max_width_of(Tail(display_data), column)
         IN  IF w > rest THEN w ELSE rest

\* LogTable::new: the widest text of every column, the TAG column overridden.
column_widths ==
    [column \in 0..(COLUMN_NUMBER - 1) |->
        IF column = TAG_COLUMN THEN TAG_COLUMN_WIDTH ELSE max_width_of(texts, column)]

RECURSIVE sum_widths(_, _)
sum_widths(from, to) ==
    IF from > to THEN 0 ELSE column_widths[from] + sum_widths(from + 1, to)

\* LogTable::available_message_width
available_message_width(viewport_width, offset) ==
    LET width_without_message == sum_widths(offset, COLUMN_NUMBER - 2)
        column_spacing == COLUMN_NUMBER - offset
        first == usize_sub(viewport_width, width_without_message)
        second == usize_sub(first.v, column_spacing)
    IN  [v |-> second.v, of |-> first.of \/ second.of]

\* LogTable::right, LogTable::left
right(offset) == Min(offset + 1, COLUMN_NUMBER - 1)
left(offset) == saturating_sub(offset, 1)

\* LogTable::last and LogTable::previous on the selection of
\* LogTable.state, and previous called n times
LogTable_last(rows) == Some(saturating_sub(rows, 1))

LogTable_previous(state) ==
    IF is_some(state) THEN Some(saturating_sub(unwrap(state), 1)) ELSE Some(0)

RECURSIVE previous_times(_, _)
previous_times(state, n) ==
    IF n = 0 THEN state ELSE previous_times(LogTable_previous(state), n - 1)

\* LogTable::wrap_message for the row at the given index
wrap_message(flags, index) ==
    IF index < Len(flags)
    THEN [flags EXCEPT ![index + 1] = ~flags[index + 1]]
    ELSE flags

\* ------------------------------------------------------ display_data.rs
\* get_matched_positions: the positions of the record's column, ascending
\* and flattened to start, end, start, end, ...
RECURSIVE flat_positions(_)
flat_positions(positions) ==
    IF positions = {} THEN <<>>
    ELSE LET p == MinPosition(positions)
         IN  <<p[1], p[2]>> \o flat_positions(positions \ {p})

get_matched_positions(columns, index) ==
    LET found == { c \in columns : c.index = index }
    IN  IF found = {} THEN None ELSE Some((CHOOSE c \in found : TRUE).positions)

\* DisplayData::as_row: whether rendering the row panicked, and its height.
as_row(line, offset, message_width, search_results) ==
    IF wrapped[line + 1] /\ Len(message_of(line)) > message_width
    THEN LET text == create_text(message_of(line), message_width)
         IN  [panic |-> text.panic, height |-> Len(text.lines)]
    ELSE [panic |->
            /\ is_some(search_results)
            /\ \E index \in offset..(COLUMN_NUMBER - 1) :
                 LET positions == get_matched_positions(unwrap(search_results).columns, index)
                 IN  /\ is_some(positions)
                     /\ ~split_string_at_indices_ok(text_of(line, index),
                                                    flat_positions(unwrap(positions))),
          height |-> 1]

\* ------------------------------------------------------ app.rs: App::draw
map_insert(map, key, value) ==
    [k \in DOMAIN map \cup {key} |-> IF k = key THEN value ELSE map[k]]

map_remove(map, key) == [k \in DOMAIN map \ {key} |-> map[k]]

map_get_or(map, key, default) == IF key \in DOMAIN map THEN map[key] ELSE default

\* The closure of draw applied to the rows index..end-1 of the visible slice.
RECURSIVE draw_rows(_, _, _, _)
draw_rows(index, end, message_width, acc) ==
    IF index >= end \/ acc.panic THEN acc
    ELSE LET row == as_row(index, column_offset, message_width,
                           get_search_results_for_line(index))
         IN  IF row.panic THEN [acc EXCEPT !.panic = TRUE]
             ELSE IF row.height > 1
             THEN LET rest == usize_sub(acc.full_height, row.height - 1)
                  IN  draw_rows(index + 1, end, message_width,
                          [panic |-> FALSE,
                           of |-> acc.of \/ rest.of,
                           row_heights |-> map_insert(acc.row_heights, index, row.height),
                           full_height |-> rest.v])
             ELSE IF index \in DOMAIN acc.row_heights
             THEN LET more == usize_add(acc.full_height, acc.row_heights[index] - 1)
                  IN  draw_rows(index + 1, end, message_width,
                          [panic |-> FALSE,
                           of |-> acc.of \/ more.of,
                           row_heights |-> map_remove(acc.row_heights, index),
                           full_height |-> more.v])
             ELSE draw_rows(index + 1, end, message_width, acc)

\* ------------------------------------------------------ the environment
\* Characters the user types into the query.
Chars == {"a", "b"}

\* Terminal sizes <<width, height>> a frame may have.
TermSizes == { <<32, 5>>, <<32, 6>> }

\* Rows the corpus is drawn from: timestamp, pid, tid, level, tag, message.
RowTemplates ==
    { << <<"b", "c">>, <<"c">>, <<"c">>, <<"c">>, <<"b", "c">>,
         <<"b", "c", " ", "b", "c">> >>,
      << <<"a", "c">>, <<"c">>, <<"c">>, <<"c">>, <<"a", "b">>,
         <<"a", "a", "b", " ", "a", "b", "c", " ", "c">> >> }

Corpora == UNION { [1..n -> RowTemplates] : n \in 0..MaxRows }

\* ------------------------------------------------------ history
\* `last` records the last key handled and, for a search jump, the
\* vertical_offset and selection before it.  When `nav` is set it records the same for the navigation
\* keys, with the number of Up keys in a row since the selection was on the
\* last row (ups), and for the Enter key that toggles a row: the row, its
\* flag, App.height and the frame height before the first of two toggles,
\* the number of toggles and whether a frame was drawn after the latest.  When `on` is set it also keeps
\* the trail of the search jumps made since the last commit: the selection
\* the commit started from, then each jump key with the selection after it.
Script == <<"start", "commit", "n", "n", "n", "N">>

TrailCap == Len(Script)

StartLast(on) ==
    [key |-> "other", offset |-> 0, selected |-> None, on |-> on, trail |-> <<>>,
     nav |-> FALSE, ups |-> 0, height |-> 0,
     toggles |-> 0, drawn |-> FALSE, row |-> 0, frame |-> 0, flag |-> FALSE]

Idle == [StartLast(last.on) EXCEPT !.nav = last.nav]

Trail(key, from, to) ==
    IF ~last.on THEN <<>>
    ELSE IF key = "commit" THEN << <<"start", from>>, <<key, to>> >>
    ELSE IF last.trail = <<>> \/ Len(last.trail) >= TrailCap THEN last.trail
    ELSE Append(last.trail, <<key, to>>)

\* ------------------------------------------------------ App::init
App_init(corpus) ==
    /\ texts = corpus
    /\ wrapped = [i \in 1..Len(corpus) |-> FALSE]
    /\ mode = "Off"
    /\ input = <<>>
    /\ results = {}
    /\ height = 0
    /\ vertical_offset = 0
    /\ selected = Some(0)
    /\ row_heights = <<>>
    /\ column_offset = 0
    /\ viewport = [width |-> 0, height |-> 0]
    /\ pc = "start"

InitApp(corpus, on) == App_init(corpus) /\ last = StartLast(on)

NoText == [panic |-> FALSE, indices |-> <<>>, lines |-> <<>>]

IdleText ==
    /\ w_text = <<>>
    /\ w_width = 0
    /\ w_op = "none"
    /\ w_result = NoText

IdleMatches ==
    /\ m_matches = {}
    /\ m_index = 0
    /\ m_op = "none"
    /\ m_result = None
    /\ IdleText

Init == IdleMatches /\ \E corpus \in Corpora : InitApp(corpus, FALSE)

\* ------------------------------------------------------ App::draw
\* The value of `last` after a frame of the given terminal size.
Framed(size) ==
    IF last.key # "wrap" THEN last
    ELSE IF size[2] - RESERVED_ROWS # last.frame \/ (last.toggles = 2 /\ last.drawn)
    THEN Idle
    ELSE [last EXCEPT !.drawn = TRUE]

\* The row loop of draw on a terminal of the given size.
frame(size) ==
    LET full == saturating_sub(size[2], RESERVED_ROWS)
        width == available_message_width(size[1], column_offset)
        end == Min(len, vertical_offset + full)
    IN  draw_rows(vertical_offset, end, width.v,
                  [panic |-> FALSE, of |-> width.of,
                   row_heights |-> row_heights, full_height |-> full])

Draw ==
    /\ pc \in {"start", "run"}
    /\ \E size \in TermSizes, checks \in BOOLEAN :
         LET acc == frame(size)
         IN  /\ IF acc.panic \/ (acc.of /\ checks)
                THEN /\ pc' = "panic"
                     /\ UNCHANGED <<viewport, height, row_heights>>
                ELSE /\ pc' = "run"
                     /\ viewport' = [width |-> size[1], height |-> size[2] - RESERVED_ROWS]
                     /\ height' = acc.full_height
                     /\ row_heights' = acc.row_heights
             /\ last' = Framed(size)
    /\ UNCHANGED <<texts, wrapped, mode, input, results, vertical_offset,
                   selected, column_offset>>
    /\ UNCHANGED mvars

\* ------------------------------------------------------ App::regular_input
Regular == pc = "run" /\ mode \in {"Off", "Iteration"}

\* Down scrolling by one row whatever the override of the top row
down_scrolls_one(st) ==
    IF is_some(st.selected)
    THEN IF unwrap(st.selected) + 1 < height
         THEN [st EXCEPT !.selected = Some(unwrap(st.selected) + 1)]
         ELSE [st EXCEPT !.vertical_offset = @ + 1]
    ELSE st

\* KeyCode::Down
down(st) ==
    IF is_some(st.selected)
    THEN IF unwrap(st.selected) + 1 < height
         THEN [st EXCEPT !.selected = Some(unwrap(st.selected) + 1)]
         ELSE [st EXCEPT !.vertical_offset =
                            @ + map_get_or(row_heights, st.vertical_offset, 1)]
    ELSE st

\* Up decrementing the relative selection without looking at it
up_below_zero(st) ==
    IF is_some(st.selected)
    THEN [st EXCEPT !.selected = Some(unwrap(st.selected) - 1)]
    ELSE st

\* Up that never scrolls
up_stuck(st) ==
    IF is_some(st.selected) /\ unwrap(st.selected) > 0
    THEN [st EXCEPT !.selected = Some(unwrap(st.selected) - 1)]
    ELSE st

\* KeyCode::Up
up(st) ==
    IF is_some(st.selected)
    THEN IF unwrap(st.selected) = 0
         THEN [st EXCEPT !.vertical_offset =
                            saturating_sub(@, map_get_or(row_heights, st.vertical_offset, 1))]
         ELSE [st EXCEPT !.selected = Some(unwrap(st.selected) - 1)]
    ELSE st

RECURSIVE repeat_down(_, _)
repeat_down(st, n) == IF n = 0 THEN st ELSE repeat_down(down(st), n - 1)

\* Up pressed n times; a step that changes nothing ends the loop early, as
\* every later step changes nothing either.
RECURSIVE repeat_up(_, _)
repeat_up(st, n) ==
    IF n = 0 \/ up(st) = st THEN st ELSE repeat_up(up(st), n - 1)

position == [selected |-> selected, vertical_offset |-> vertical_offset]

Capped(st) ==
    /\ st.vertical_offset <= len + MaxOvershoot
    /\ is_some(st.selected) => unwrap(st.selected) <= len + MaxOvershoot

\* The value of `last` after a navigation key.
Moved(key) ==
    IF ~last.nav THEN Idle
    ELSE [Idle EXCEPT !.key = key, !.offset = vertical_offset, !.selected = selected,
                      !.ups = IF key # "up" THEN 0
                              ELSE IF len > 0 /\ Selected = len - 1 THEN 1
                              ELSE IF last.key = "up" /\ last.ups \in 1..(len - 1)
                                   THEN last.ups + 1
                                   ELSE 0]

MoveTo(key, st) ==
    /\ Capped(st)
    /\ selected' = st.selected
    /\ vertical_offset' = st.vertical_offset
    /\ UNCHANGED <<texts, wrapped, mode, input, results, height, row_heights,
                   column_offset, viewport, pc>>
    /\ UNCHANGED mvars
    /\ last' = Moved(key)

KeyDown == Regular /\ MoveTo("down", down(position))

KeyUp == Regular /\ MoveTo("up", up(position))

KeyPageDown ==
    /\ Regular
    /\ height <= 2 * (len + MaxOvershoot)
    /\ MoveTo("pagedown", repeat_down(position, height))

KeyPageUp == Regular /\ MoveTo("pageup", repeat_up(position, height))

KeyLeft ==
    /\ Regular
    /\ column_offset' = left(column_offset)
    /\ UNCHANGED <<texts, wrapped, mode, input, results, height, vertical_offset,
                   selected, row_heights, viewport, pc>>
    /\ UNCHANGED mvars
    /\ last' = Idle

KeyRight ==
    /\ Regular
    /\ column_offset' = right(column_offset)
    /\ UNCHANGED <<texts, wrapped, mode, input, results, height, vertical_offset,
                   selected, row_heights, viewport, pc>>
    /\ UNCHANGED mvars
    /\ last' = Idle

KeyHome ==
    /\ Regular
    /\ column_offset' = 0
    /\ UNCHANGED <<texts, wrapped, mode, input, results, height, vertical_offset,
                   selected, row_heights, viewport, pc>>
    /\ UNCHANGED mvars
    /\ last' = Idle

KeyEnd ==
    /\ Regular
    /\ column_offset' = COLUMN_NUMBER - 1
    /\ UNCHANGED <<texts, wrapped, mode, input, results, height, vertical_offset,
                   selected, row_heights, viewport, pc>>
    /\ UNCHANGED mvars
    /\ last' = Idle

\* KeyCode::Char('y') and KeyCode::Char('Y'): the line goes to the
\* clipboard, and nothing of the state modelled here changes.
KeyCopy ==
    /\ Regular
    /\ UNCHANGED <<texts, wrapped, mode, input, results, height, vertical_offset,
                   selected, row_heights, column_offset, viewport, pc>>
    /\ UNCHANGED mvars
    /\ last' = Idle

\* The value of `last` after the Enter key toggled the selected row.
Toggled ==
    IF ~last.nav THEN Idle
    ELSE IF last.key = "wrap" /\ last.toggles = 1 /\ last.drawn /\ last.row = Selected
    THEN [last EXCEPT !.toggles = 2, !.drawn = FALSE]
    ELSE [Idle EXCEPT !.key = "wrap", !.toggles = 1, !.row = Selected,
                      !.height = height, !.frame = viewport.height,
                      !.flag = Selected < len /\ wrapped[Selected + 1]]

\* KeyCode::Enter outside Input mode
KeyWrap ==
    /\ Regular
    /\ wrapped' = wrap_message(wrapped, Selected)
    /\ UNCHANGED <<texts, mode, input, results, height, vertical_offset,
                   selected, row_heights, column_offset, viewport, pc>>
    /\ UNCHANGED mvars
    /\ last' = Toggled

\* '/' entering Input mode with the index of the earlier search kept
KeySlash_keeps_results ==
    /\ Regular
    /\ mode' = "Input"
    /\ UNCHANGED <<texts, wrapped, input, results, height, vertical_offset, selected,
                   row_heights, column_offset, viewport, pc>>
    /\ UNCHANGED mvars
    /\ last' = Idle

\* KeyCode::Char('/')
KeySlash ==
    /\ Regular
    /\ mode' = "Input"
    /\ results' = {}
    /\ UNCHANGED <<texts, wrapped, input, height, vertical_offset, selected,
                   row_heights, column_offset, viewport, pc>>
    /\ UNCHANGED mvars
    /\ last' = Idle

\* KeyCode::Char('q'), and Ctrl-c
KeyQuit ==
    /\ Regular
    /\ pc' = "quit"
    /\ UNCHANGED <<texts, wrapped, mode, input, results, height, vertical_offset,
                   selected, row_heights, column_offset, viewport>>
    /\ UNCHANGED mvars
    /\ last' = Idle

\* ------------------------------------------------------ App::input
\* The value of `last` after a search jump.
Noted(key) ==
    [Idle EXCEPT !.key = key, !.offset = vertical_offset, !.selected = selected,
                 !.trail = Trail(key, Selected, Selected')]

\* The selection part of a search jump: App::select applied to the line.
Jump(line) ==
    LET to == select(line)
    IN  \E checks \in BOOLEAN :
            IF to.of /\ checks
            THEN pc' = "panic" /\ UNCHANGED <<vertical_offset, selected>>
            ELSE /\ pc' = pc
                 /\ vertical_offset' = to.vertical_offset
                 /\ selected' = to.selected

\* Typing that indexes the corpus for the query typed so far
KeyChar_indexing ==
    /\ pc = "run" /\ mode = "Input"
    /\ Len(input) < MaxQuery
    /\ \E c \in Chars : input' = Append(input, c)
    /\ results' = update_results(results, texts, input')
    /\ UNCHANGED <<texts, wrapped, mode, height, vertical_offset,
                   selected, row_heights, column_offset, viewport, pc>>
    /\ UNCHANGED mvars
    /\ last' = Idle

\* Input mode, KeyCode::Char(c)
KeyChar ==
    /\ pc = "run" /\ mode = "Input"
    /\ Len(input) < MaxQuery
    /\ \E c \in Chars : input' = Append(input, c)
    /\ UNCHANGED <<texts, wrapped, mode, results, height, vertical_offset,
                   selected, row_heights, column_offset, viewport, pc>>
    /\ UNCHANGED mvars
    /\ last' = Idle

\* Input mode, KeyCode::Backspace
KeyBackspace ==
    /\ pc = "run" /\ mode = "Input"
    /\ input' = <<>>
    /\ UNCHANGED <<texts, wrapped, mode, results, height, vertical_offset,
                   selected, row_heights, column_offset, viewport, pc>>
    /\ UNCHANGED mvars
    /\ last' = Idle

\* KeyCode::Esc, in Input mode and in Iteration mode
KeyEsc ==
    /\ pc = "run" /\ mode \in {"Input", "Iteration"}
    /\ mode' = "Off"
    /\ input' = IF mode = "Input" THEN <<>> ELSE input
    /\ UNCHANGED <<texts, wrapped, results, height, vertical_offset, selected,
                   row_heights, column_offset, viewport, pc>>
    /\ UNCHANGED mvars
    /\ last' = Idle

\* App::update_results followed by App::jump_to_nearest_result: the
\* assertion on the query, the build, and the jump.
Commit ==
    IF input = <<>>
    THEN /\ pc' = "panic"
         /\ UNCHANGED <<results, vertical_offset, selected>>
         /\ last' = [Idle EXCEPT !.key = "assert"]
    ELSE /\ results' = update_results(results, texts, input)
         /\ Jump(nearest_result(results'))
         /\ last' = Noted("commit")

\* Enter committing the query whether or not it is empty
KeyCommit_unchecked ==
    /\ pc = "run" /\ mode = "Input"
    /\ mode' = "Iteration"
    /\ Commit
    /\ UNCHANGED <<texts, wrapped, input, height, row_heights, column_offset, viewport>>
    /\ UNCHANGED mvars

\* Input mode, KeyCode::Enter: commit the query
KeyCommit ==
    /\ pc = "run" /\ mode = "Input"
    /\ IF input = <<>>
       THEN /\ mode' = "Off"
            /\ UNCHANGED <<results, vertical_offset, selected, pc>>
            /\ last' = Noted("commit")
       ELSE /\ mode' = "Iteration"
            /\ Commit
    /\ UNCHANGED <<texts, wrapped, input, height, row_heights, column_offset, viewport>>
    /\ UNCHANGED mvars

\* next-match taking the record it jumps to out of the index
KeyNextMatch_draining ==
    /\ pc = "run" /\ mode = "Iteration"
    /\ IF next_result_advanced
       THEN /\ Jump(next_result)
            /\ results' = { r \in results : Some(r.index) # next_result }
       ELSE UNCHANGED <<vertical_offset, selected, pc, results>>
    /\ UNCHANGED <<texts, wrapped, mode, input, height, row_heights,
                   column_offset, viewport>>
    /\ UNCHANGED mvars
    /\ last' = Noted("n")

\* Iteration mode, KeyCode::Char('n')
KeyNextMatch ==
    /\ pc = "run" /\ mode = "Iteration"
    /\ IF next_result_advanced
       THEN Jump(next_result)
       ELSE UNCHANGED <<vertical_offset, selected, pc>>
    /\ UNCHANGED <<texts, wrapped, mode, input, results, height, row_heights,
                   column_offset, viewport>>
    /\ UNCHANGED mvars
    /\ last' = Noted("n")

\* Iteration mode, KeyCode::Char('N')
KeyPrevMatch ==
    /\ pc = "run" /\ mode = "Iteration"
    /\ Jump(previous_result)
    /\ UNCHANGED <<texts, wrapped, mode, input, results, height, row_heights,
                   column_offset, viewport>>
    /\ UNCHANGED mvars
    /\ last' = Noted("N")

Next ==
    \/ Draw
    \/ KeyDown \/ KeyUp \/ KeyPageDown \/ KeyPageUp
    \/ KeyLeft \/ KeyRight \/ KeyHome \/ KeyEnd
    \/ KeyWrap \/ KeySlash \/ KeyQuit
    \/ KeyChar \/ KeyBackspace \/ KeyEsc \/ KeyCommit
    \/ KeyNextMatch \/ KeyPrevMatch

Spec == Init /\ [][Next]_vars

\* The search and navigation keys only: no row is ever wrapped and the
\* columns are never scrolled.
NextSearch ==
    \/ Draw
    \/ KeyDown \/ KeyUp \/ KeyPageDown \/ KeyPageUp
    \/ KeySlash \/ KeyQuit
    \/ KeyChar \/ KeyBackspace \/ KeyEsc \/ KeyCommit
    \/ KeyNextMatch \/ KeyPrevMatch

SpecSearch == Init /\ [][NextSearch]_vars

\* The end-to-end scenario: a corpus of 10 rows of which exactly the rows
\* 2, 5 and 9 contain the letter a.
RowWithA == << <<"a", "c">>, <<"c">>, <<"c">>, <<"c">>, <<"a", "b">>,
               <<"a", "a", "b", " ", "a", "b", "c", " ", "c">> >>

RowWithoutA == << <<"b", "c">>, <<"c">>, <<"c">>, <<"c">>, <<"b", "c">>,
                  <<"b", "c", " ", "b", "c">> >>

\* The keys of Iteration mode on the corpus of two rows, one of each
\* template, from the state after the first frame, '/', one character and
\* Enter: every character is found in row 0, which stays selected.
InitIter ==
    /\ IdleMatches
    /\ \E size \in TermSizes, c \in Chars :
         /\ texts = <<RowWithA, RowWithoutA>>
         /\ wrapped = <<FALSE, FALSE>>
         /\ mode = "Iteration"
         /\ input = <<c>>
         /\ results = update_results({}, <<RowWithA, RowWithoutA>>, <<c>>)
         /\ height = size[2] - RESERVED_ROWS
         /\ vertical_offset = 0
         /\ selected = Some(0)
         /\ row_heights = <<>>
         /\ column_offset = 0
         /\ viewport = [width |-> size[1], height |-> size[2] - RESERVED_ROWS]
         /\ pc = "run"
         /\ last = [StartLast(FALSE) EXCEPT !.key = "commit", !.selected = Some(0)]

NextIter ==
    \/ Draw
    \/ KeyDown \/ KeyUp \/ KeyPageDown \/ KeyPageUp
    \/ KeyLeft \/ KeyRight \/ KeyHome \/ KeyEnd
    \/ KeyWrap \/ KeyCopy \/ KeySlash
    \/ KeyNextMatch \/ KeyPrevMatch

SpecIter == InitIter /\ [][NextIter]_vars

ScenarioCorpus == [i \in 1..10 |-> IF i - 1 \in {2, 5, 9} THEN RowWithA ELSE RowWithoutA]

InitScenario == IdleMatches /\ InitApp(ScenarioCorpus, TRUE)

NextScenario ==
    \/ Draw
    \/ KeyDown \/ KeyUp
    \/ KeySlash
    \/ KeyChar \/ KeyBackspace \/ KeyEsc \/ KeyCommit
    \/ KeyNextMatch \/ KeyPrevMatch

SpecScenario == InitScenario /\ [][NextScenario]_vars

\* The navigation keys and the Enter key that toggles a row, with the
\* history of these keys recorded, on corpora that alternate rows whose
\* message takes three lines (RowWithA) and two (RowWithoutA) when wrapped.
NavCorpora ==
    { [i \in 1..n |-> IF (i + k) % 2 = 0 THEN RowWithA ELSE RowWithoutA] :
        n \in 0..MaxNavRows, k \in 0..1 }

InitNav ==
    /\ IdleMatches
    /\ \E corpus \in NavCorpora :
         App_init(corpus) /\ last = [StartLast(FALSE) EXCEPT !.nav = TRUE]

NextNav ==
    \/ Draw
    \/ KeyDown \/ KeyUp \/ KeyPageDown \/ KeyPageUp
    \/ KeyWrap

SpecNav == InitNav /\ [][NextNav]_vars

\* ------------------------------ specification of the match-index lookups
\* Column payloads a drawn record may carry: the empty payload of a sentinel
\* (records of the unit tests) and two non-empty ones.
Payloads ==
    { {},
      { MatchedColumn_new(0, {<<0, 1>>}) },
      { MatchedColumn_new(0, {<<0, 1>>}), MatchedColumn_new(5, {<<1, 2>>, <<3, 4>>}) } }

Records == { MatchedLine_new(i, p) : i \in 0..MaxLine, p \in Payloads }

InitMatches ==
    /\ m_matches \in { S \in SUBSET Records : Cardinality(S) <= MaxMatches }
    /\ m_index \in 0..(MaxLine + 1)
    /\ m_op = "none"
    /\ m_result = None
    /\ IdleText
    /\ texts = <<>>
    /\ wrapped = <<>>
    /\ mode = "Iteration"
    /\ input = <<"a">>
    /\ results = m_matches
    /\ height = 0
    /\ vertical_offset = 0
    /\ selected = Some(0)
    /\ row_heights = <<>>
    /\ column_offset = 0
    /\ viewport = [width |-> 0, height |-> 0]
    /\ pc = "run"
    /\ last = StartLast(FALSE)

Call(op, result) ==
    /\ m_op = "none"
    /\ m_op' = op
    /\ m_result' = result
    /\ UNCHANGED <<m_matches, m_index>>
    /\ UNCHANGED wvars
    /\ UNCHANGED avars

CallNext == Call("next", next_match(m_matches, m_index))

CallPrevious == Call("previous", previous_match(m_matches, m_index))

CallExact == Call("exact", exact_match(m_matches, m_index))

CallNearest == Call("nearest", nearest_match(m_matches, m_index))

\* App::get_search_results_for_line on an App whose index is m_matches
CallLookup == Call("lookup", get_search_results_for_line(m_index))

NextMatches == CallNext \/ CallPrevious \/ CallExact \/ CallNearest \/ CallLookup

SpecMatches == InitMatches /\ [][NextMatches]_vars

\* Texts handed to the text wrapper and, as messages, to the build.
TextChars == {"a", " "}

\* Texts of letters and single spaces.
Texts ==
    { t \in UNION { [1..n -> TextChars] : n \in 0..MaxText } :
        \A i \in 1..(Len(t) - 1) : ~(is_space(t[i]) /\ is_space(t[i + 1])) }

\* ------------------------------ the lookups over the whole range of usize
\* next_match with index + 1 computed on a usize: an overflow panics in a
\* build with overflow checks and otherwise wraps around to sentinel(0).
next_match_usize(matches, index, checks) ==
    LET to == usize_add(index, 1)
    IN  IF ~to.of THEN [panic |-> FALSE, value |-> next_match(matches, index)]
        ELSE IF checks THEN [panic |-> TRUE, value |-> None]
        ELSE [panic |-> FALSE,
              value |-> range_next({m \in matches : MatchedLine_le(sentinel(to.v), m)})]

\* exact_match and App::get_search_results_for_line with index + 1 computed
\* on a usize: after a wrap-around the range starts above its end, and
\* BTreeSet::range panics.
exact_match_usize(matches, index) ==
    LET to == usize_add(index, 1)
    IN  IF ~to.of THEN [panic |-> FALSE, value |-> exact_match(matches, index)]
        ELSE [panic |-> TRUE, value |-> None]

InitEdge ==
    /\ m_matches \in { S \in SUBSET Records : Cardinality(S) <= MaxMatches }
    /\ m_index \in {0, MaxLine, USIZE_MAX - 1, USIZE_MAX}
    /\ m_op = "none"
    /\ m_result = None
    /\ IdleText
    /\ texts = <<>>
    /\ wrapped = <<>>
    /\ mode = "Iteration"
    /\ input = <<"a">>
    /\ results = m_matches
    /\ height = 0
    /\ vertical_offset = 0
    /\ selected = Some(0)
    /\ row_heights = <<>>
    /\ column_offset = 0
    /\ viewport = [width |-> 0, height |-> 0]
    /\ pc = "run"
    /\ last = StartLast(FALSE)

EdgeNext ==
    \E checks \in BOOLEAN : Call("next", next_match_usize(m_matches, m_index, checks))

EdgeExact == Call("exact", exact_match_usize(m_matches, m_index))

EdgeLookup == Call("lookup", exact_match_usize(results, m_index))

EdgeNearest ==
    Call("nearest", [panic |-> FALSE, value |-> nearest_match(m_matches, m_index)])

NextEdge == EdgeNext \/ EdgeExact \/ EdgeLookup \/ EdgeNearest

SpecEdge == InitEdge /\ [][NextEdge]_vars

\* ------------------------------------------------------ log_table.rs alone
\* The navigation commands of LogTable on a table built from any corpus.
\* Here `selected` is LogTable.state.selected() and `viewport` is
\* LogTable.viewport, which App::draw sets at every frame.

InitTable ==
    /\ IdleMatches
    /\ \E corpus \in Corpora :
         /\ texts = corpus
         /\ wrapped = [i \in 1..Len(corpus) |-> FALSE]
    /\ mode = "Off"
    /\ input = <<>>
    /\ results = {}
    /\ height = 0
    /\ vertical_offset = 0
    /\ selected = None
    /\ row_heights = <<>>
    /\ column_offset = 0
    /\ viewport = [width |-> 0, height |-> 0]
    /\ pc = "run"
    /\ last = StartLast(FALSE)

\* A command of LogTable that leaves everything but the selection, or
\* panics on an arithmetic overflow.
TableSelect(panics, item) ==
    /\ pc = "run"
    /\ IF panics
       THEN pc' = "panic" /\ UNCHANGED selected
       ELSE pc' = pc /\ selected' = item
    /\ UNCHANGED <<texts, wrapped, mode, input, results, height, vertical_offset,
                   row_heights, column_offset, viewport, last>>
    /\ UNCHANGED mvars

\* App::draw: self.table.viewport = Rect::new(0, 0, width, height - 4)
TableViewport ==
    /\ pc = "run"
    /\ \E size \in TermSizes :
         viewport' = [width |-> size[1], height |-> size[2] - RESERVED_ROWS]
    /\ UNCHANGED <<texts, wrapped, mode, input, results, height, vertical_offset,
                   selected, row_heights, column_offset, pc, last>>
    /\ UNCHANGED mvars

\* LogTable::next and LogTable::next_page: the step added, then min with
\* len() - 1, which is computed only when a row is selected.
LogTable_forward(state, step, checks) ==
    IF is_some(state)
    THEN LET bound == usize_sub(len, 1)
         IN  [panic |-> bound.of /\ checks,
              item |-> Some(Min(Min(unwrap(state) + step, USIZE_MAX), bound.v))]
    ELSE [panic |-> FALSE, item |-> Some(0)]

\* LogTable::previous and LogTable::previous_page
LogTable_backward(state, step) ==
    IF is_some(state) THEN Some(saturating_sub(unwrap(state), step)) ELSE Some(0)

TableNext ==
    \E checks \in BOOLEAN :
        LET to == LogTable_forward(selected, 1, checks)
        IN  TableSelect(to.panic, to.item)

TableNextPage ==
    \E checks \in BOOLEAN :
        LET to == LogTable_forward(selected, viewport.height, checks)
        IN  TableSelect(to.panic, to.item)

TablePrevious == TableSelect(FALSE, LogTable_backward(selected, 1))

TablePreviousPage == TableSelect(FALSE, LogTable_backward(selected, viewport.height))

\* LogTable::first
TableFirst == TableSelect(FALSE, Some(0))

TableLast == TableSelect(FALSE, LogTable_last(len))

NextTable ==
    \/ TableViewport
    \/ TableNext \/ TableNextPage \/ TablePrevious \/ TablePreviousPage
    \/ TableFirst \/ TableLast

SpecTable == InitTable /\ [][NextTable]_vars

\* ------------------------------------------------------ the build alone
\* A commit on a corpus of one row whose message is any text, from the
\* state after the first frame, '/' and the characters of the query.
RowWithMessage(message) ==
    << <<"a", "c">>, <<"c">>, <<"c">>, <<"c">>, <<"a", "b">>, message >>


InitBuild ==
    /\ IdleMatches
    /\ \E size \in TermSizes, message \in Texts, query \in UNION { [1..n -> Chars] : n \in 0..MaxQuery } :
         /\ texts = <<RowWithMessage(message)>>
         /\ wrapped = <<FALSE>>
         /\ mode = "Input"
         /\ input = query
         /\ results = {}
         /\ height = size[2] - RESERVED_ROWS
         /\ vertical_offset = 0
         /\ selected = Some(0)
         /\ row_heights = <<>>
         /\ column_offset = 0
         /\ viewport = [width |-> size[1], height |-> size[2] - RESERVED_ROWS]
         /\ pc = "run"
         /\ last = StartLast(FALSE)

NextBuild == KeyCommit

SpecBuild == InitBuild /\ [][NextBuild]_vars

\* ------------------------------------------------------ text_utils.rs alone
\* The functions of text_utils.rs applied to a text and a max_width.
InitText ==
    /\ w_text \in Texts
    /\ w_width \in 0..MaxWidth
    /\ w_op = "none"
    /\ w_result = NoText
    /\ m_matches = {}
    /\ m_index = 0
    /\ m_op = "none"
    /\ m_result = None
    /\ InitApp(<<>>, FALSE)

CallText(op, result) ==
    /\ w_op = "none"
    /\ w_op' = op
    /\ w_result' = result
    /\ UNCHANGED <<w_text, w_width, m_matches, m_index, m_op, m_result>>
    /\ UNCHANGED avars

\* wrap_indices(text, max_width)
CallWrapIndices ==
    CallText("wrap_indices",
             [NoText EXCEPT !.indices = wrap_indices(w_text, w_width)])

\* split_string_at_indices(text, &wrap_indices(text, max_width))
wrap_and_split(text, max_width) ==
    LET indices == wrap_indices(text, max_width)
    IN  IF split_string_at_indices_ok(text, indices)
        THEN [panic |-> FALSE, indices |-> indices,
              lines |-> split_string_at_indices(text, indices)]
        ELSE [panic |-> TRUE, indices |-> indices, lines |-> <<>>]

CallSplit == CallText("split", wrap_and_split(w_text, w_width))

\* create_text(text, max_width)
CallCreateText ==
    LET text == create_text(w_text, w_width)
    IN  CallText("create_text",
                 [panic |-> text.panic,
                  indices |-> IF Len(w_text) > w_width
                              THEN wrap_indices(w_text, w_width) ELSE <<>>,
                  lines |-> text.lines])

NextText == CallWrapIndices \/ CallSplit \/ CallCreateText

SpecText == InitText /\ [][NextText]_vars

\* ====================================================================
\* Claims about the match-index lookups (checked under SpecMatches)
\* ====================================================================
AbsDiff(a, b) == IF a >= b THEN a - b ELSE b - a

After(i) == { r \in m_matches : r.index > i }
Before(i) == { r \in m_matches : r.index < i }
At(i) == { r \in m_matches : r.index = i }

\* C1: next(i) returns a record with the smallest line_index strictly greater
\* than i, and none when no record has line_index > i (no wrap-around).
C1_NextIsSmallestAfter ==
    m_op = "next" =>
        IF After(m_index) = {}
        THEN m_result = None
        ELSE /\ is_some(m_result)
             /\ unwrap(m_result) \in After(m_index)
             /\ \A r \in After(m_index) : unwrap(m_result).index <= r.index

\* C1 witness: next was applied at a line that is itself a match, with two
\* later matches and an earlier one, and returned the nearer later match.
C1_Witness ==
    /\ m_op = "next"
    /\ At(m_index) # {}
    /\ Before(m_index) # {}
    /\ \E a, b \in After(m_index) : a.index < b.index /\ m_result = Some(a)

\* C2: previous(i) returns a record with the largest line_index strictly less
\* than i, and none when no record has line_index < i.
C2_PreviousIsLargestBefore ==
    m_op = "previous" =>
        IF Before(m_index) = {}
        THEN m_result = None
        ELSE /\ is_some(m_result)
             /\ unwrap(m_result) \in Before(m_index)
             /\ \A r \in Before(m_index) : r.index <= unwrap(m_result).index

\* C2 witness: previous was applied at a line that is itself a match with a
\* non-empty payload, with two earlier matches, and returned the nearer one.
C2_Witness ==
    /\ m_op = "previous"
    /\ \E r \in At(m_index) : r.columns # {}
    /\ \E a, b \in Before(m_index) : a.index < b.index /\ m_result = Some(b)

\* C3: exact(i), and the per-row highlight lookup of App, return a record
\* whose line_index equals i when the index holds one and none otherwise,
\* whatever column payload the stored records carry.
C3_ExactIsRecordAt ==
    m_op \in {"exact", "lookup"} =>
        IF At(m_index) = {}
        THEN m_result = None
        ELSE is_some(m_result) /\ unwrap(m_result) \in At(m_index)

\* C3 witness: exact found a record that carries a non-empty column payload,
\* in an index that has records on both sides of it.
C3_Witness ==
    /\ m_op = "exact"
    /\ is_some(m_result)
    /\ unwrap(m_result).columns # {}
    /\ Before(m_index) # {}
    /\ After(m_index) # {}

\* C4: nearest(i) returns none on an empty index and otherwise a record at
\* minimum distance from i; of two equidistant records it returns the lower.
C4_NearestIsClosestLowerOnTie ==
    m_op = "nearest" =>
        IF m_matches = {}
        THEN m_result = None
        ELSE /\ is_some(m_result)
             /\ unwrap(m_result) \in m_matches
             /\ \A r \in m_matches :
                    LET d == AbsDiff(unwrap(m_result).index, m_index)
                    IN  /\ d <= AbsDiff(r.index, m_index)
                        /\ d = AbsDiff(r.index, m_index) => unwrap(m_result).index <= r.index

\* C4 witness: nearest was applied midway between two matches, none closer,
\* and returned the lower one.
C4_Witness ==
    /\ m_op = "nearest"
    /\ At(m_index) = {}
    /\ \E a \in Before(m_index), b \in After(m_index) :
          /\ m_index - a.index = b.index - m_index
          /\ m_result = Some(a)

\* ====================================================================
\* Claims about the search jumps of App (checked under SpecSearch)
\* ====================================================================
\* The line indexes of the match index, and the absolute selection the last
\* search jump started from.
MatchRows == { r.index : r \in results }

From == last.offset + (IF is_some(last.selected) THEN unwrap(last.selected) ELSE 0)

\* C5: the next-match command issued from any selection s moves the
\* selection to the match with the smallest line index strictly greater
\* than s whenever such a match exists.
C5_NextMatchFromAnyRow ==
    (last.key = "n" /\ pc # "panic" /\ \E i \in MatchRows : i > From) =>
        /\ Selected \in MatchRows
        /\ Selected > From
        /\ \A i \in MatchRows : i > From => Selected <= i

\* C6: the previous-match command issued from any selection s moves the
\* selection to the match with the largest line index strictly less than s
\* whenever such a match exists.
C6_PrevMatchFromAnyRow ==
    (last.key = "N" /\ pc # "panic" /\ \E i \in MatchRows : i < From) =>
        /\ Selected \in MatchRows
        /\ Selected < From
        /\ \A i \in MatchRows : i < From => i <= Selected

\* C6 witness: previous-match was issued on a row that is itself a match,
\* with two matches before it, and selected the nearer one.
C6_Witness ==
    /\ last.key = "N"
    /\ pc = "run"
    /\ From \in MatchRows
    /\ \E i \in MatchRows : i < Selected
    /\ Selected < From

\* C7: committing a non-empty query moves the selection to the match nearest
\* to the selection; of two equally distant matches the lower is selected.
C7_CommitSelectsNearestLowerOnTie ==
    (last.key = "commit" /\ mode = "Iteration" /\ pc # "panic" /\ MatchRows # {}) =>
        /\ Selected \in MatchRows
        /\ \A i \in MatchRows :
               /\ AbsDiff(Selected, From) <= AbsDiff(i, From)
               /\ AbsDiff(Selected, From) = AbsDiff(i, From) => Selected <= i

\* C9: a search jump that finds no qualifying match leaves vertical_offset
\* and the relative selection unchanged.
C9_NoMatchNoMove ==
    (\/ last.key = "n" /\ \A i \in MatchRows : i <= From
     \/ last.key = "N" /\ \A i \in MatchRows : i >= From
     \/ last.key = "commit" /\ mode = "Iteration" /\ MatchRows = {}) =>
        /\ vertical_offset = last.offset
        /\ selected = last.selected

\* C9 witness: previous-match was issued above the first match of a non-empty
\* index, on a scrolled window, and nothing moved.
C9_Witness ==
    /\ last.key = "N"
    /\ pc = "run"
    /\ MatchRows # {}
    /\ \A i \in MatchRows : i > From
    /\ vertical_offset > 0
    /\ vertical_offset = last.offset
    /\ selected = last.selected

\* C10: the index built for a non-empty query q holds a record for row i
\* exactly when some column text of row i contains q, and the record lists
\* exactly the columns of row i that contain q, each with some position.
Contains(text, query) ==
    \E k \in 0..(Len(text) - Len(query)) : SubSeq(text, k + 1, k + Len(query)) = query

ColumnsContaining(line, query) ==
    { c \in 0..(COLUMN_NUMBER - 1) : Contains(text_of(line, c), query) }

IndexOf(index, query) ==
    /\ \A i \in 0..(len - 1) :
          (\E r \in index : r.index = i) <=> ColumnsContaining(i, query) # {}
    /\ \A r \in index :
          /\ r.index \in 0..(len - 1)
          /\ { c.index : c \in r.columns } = ColumnsContaining(r.index, query)
          /\ r.columns # {}
          /\ \A c \in r.columns : c.positions # {}

C10_IndexHoldsExactlyTheMatches ==
    (mode = "Iteration" /\ last.key = "commit") =>
        /\ IndexOf(results, input)
        /\ IndexOf(State_update(input, texts), input)

\* C10 witness: a committed index that omits a row without a match and holds
\* a record listing some but not all columns of its row, one of them with
\* two positions.
C10_Witness ==
    /\ mode = "Iteration"
    /\ last.key = "commit"
    /\ \E i \in 0..(len - 1) : i \notin MatchRows
    /\ \E r \in results :
          /\ Cardinality(r.columns) \in 2..(COLUMN_NUMBER - 1)
          /\ \E c \in r.columns : Cardinality(c.positions) >= 2

\* ====================================================================
\* The end-to-end scenario (checked under SpecScenario)
\* ====================================================================
TrailKeys == [k \in 1..Len(last.trail) |-> last.trail[k][1]]

TrailRows == [k \in 1..Len(last.trail) |-> last.trail[k][2]]

\* C8: with matches exactly at rows 2, 5 and 9 of a 10-row corpus and the
\* selection at row 0, the commit selects 2, three next-match commands then
\* select 5, 9 and 9, and a previous-match command selects 5.
C8_Scenario ==
    (/\ len = 10
     /\ MatchRows = {2, 5, 9}
     /\ pc # "panic"
     /\ TrailKeys = SubSeq(Script, 1, Len(last.trail))
     /\ Len(last.trail) > 0 /\ TrailRows[1] = 0) =>
        TrailRows = SubSeq(<<0, 2, 5, 9, 9, 5>>, 1, Len(last.trail))

\* C8 witness: the whole script has run, ending on row 5.
C8_Witness ==
    /\ len = 10
    /\ MatchRows = {2, 5, 9}
    /\ pc = "run"
    /\ TrailKeys = Script
    /\ TrailRows[1] = 0
    /\ Selected = 5

\* ====================================================================
\* Claims about the index and the search modes (checked under SpecSearch)
\* ====================================================================
OneRecordPerLine(index) == \A r1, r2 \in index : r1.index = r2.index => r1 = r2

Ascending(records) ==
    \A k \in 1..(Len(records) - 1) : records[k].index < records[k + 1].index

\* C11: every index produced by a build holds at most one record for a line
\* index, and iterating over it visits the records in strictly ascending
\* order of line index.
C11_OneRecordPerLineAscending ==
    /\ OneRecordPerLine(results)
    /\ Ascending(iter(results))
    /\ MatchedLines_from(iter(results)) = results
    /\ (last.key = "commit" /\ mode = "Iteration") =>
          /\ OneRecordPerLine(State_update(input, texts))
          /\ Ascending(iter(State_update(input, texts)))

\* C11 witness: a committed index of three records, one of them with
\* several columns.
C11_Witness ==
    /\ last.key = "commit"
    /\ Cardinality(results) = 3
    /\ \E r \in results : Cardinality(r.columns) >= 2

\* C12: committing an empty query switches the search off without building
\* an index; the mode is Iteration only with a non-empty query, and the
\* assertion at the start of update_results never fails.
C12_EmptyCommitSwitchesOff ==
    /\ mode = "Iteration" => input # <<>>
    /\ last.key # "assert"
    /\ (last.key = "commit" /\ input = <<>>) => (mode = "Off" /\ results = {})

\* C12 witness: an empty query was committed on a corpus with rows, some way
\* down the corpus, and the search is off.
C12_Witness ==
    /\ last.key = "commit"
    /\ input = <<>>
    /\ mode = "Off"
    /\ pc = "run"
    /\ len > 0
    /\ Selected > 0

\* C13: while the search mode is Input the match index is empty.
C13_TypingNeverIndexes == mode = "Input" => results = {}

\* C13 witness: a query that some row contains has been typed and not yet
\* committed, and the index is empty.
C13_Witness ==
    /\ mode = "Input"
    /\ Len(input) = 2
    /\ State_update(input, texts) # {}
    /\ results = {}

\* C14: after every commit of a non-empty query the index is the full set of
\* matches of that query over the corpus, whatever was searched before.
C14_IndexIsFunctionOfCorpusAndQuery ==
    (last.key = "commit" /\ mode = "Iteration") =>
        /\ results = update_results({}, texts, input)
        /\ results = State_update(input, texts)
        /\ IndexOf(results, input)

\* C14 witness: a two-character query was committed and matched on some but
\* not all rows.
C14_Witness ==
    /\ last.key = "commit"
    /\ mode = "Iteration"
    /\ Len(input) = 2
    /\ results # {}
    /\ Cardinality(results) < len

\* The line a search jump hands to App::select.
SelectTarget ==
    IF mode = "Input" THEN nearest_result(results')
    ELSE IF last'.key = "n" THEN (IF next_result_advanced THEN next_result ELSE None)
    ELSE previous_result

\* C18: a search jump to a target inside the half-open window
\* [vertical_offset, vertical_offset + height) changes only the relative
\* selection; for every other target, the end of the window included, it
\* sets vertical_offset to the target and the relative selection to 0.
C18_SelectHalfOpenWindow ==
    [][((KeyCommit \/ KeyNextMatch \/ KeyPrevMatch)
          /\ pc' # "panic" /\ is_some(SelectTarget)) =>
        LET target == unwrap(SelectTarget)
        IN  IF vertical_offset <= target /\ target < vertical_offset + height
            THEN vertical_offset' = vertical_offset
                   /\ selected' = Some(target - vertical_offset)
            ELSE vertical_offset' = target /\ selected' = Some(0)]_vars

\* ====================================================================
\* Claims about navigation and wrapping (checked under SpecNav)
\* ====================================================================
\* C15: for a non-empty corpus the absolute selection is at most the index
\* of the last row, and Down on the last row leaves it unchanged.
C15_SelectionSaturatesAtLastRow ==
    (len > 0 /\ pc # "panic") =>
        /\ Selected <= len - 1
        /\ (last.key = "down" /\ From = len - 1) => Selected = len - 1

\* C16: Up and PageUp issued with the absolute selection at 0 leave
\* vertical_offset at 0 and the relative selection at 0.
C16_UpAtTopStays ==
    (last.key \in {"up", "pageup"} /\ From = 0) =>
        /\ vertical_offset = 0
        /\ selected = Some(0)

\* C16 witness: PageUp was issued on row 0 while row 0 was expanded and the
\* height budget was not zero.
C16_Witness ==
    /\ last.key = "pageup"
    /\ From = 0
    /\ 0 \in DOMAIN row_heights
    /\ height >= 1
    /\ vertical_offset = 0
    /\ selected = Some(0)

\* C17: with an empty corpus no row is selected, initially and after every
\* navigation command.
C17_EmptyCorpusNoSelection == len = 0 => selected = None

\* C19: after N Up keys in a row that started on the last row of a corpus of
\* N rows the absolute selection is 0; after k of them it is at most
\* N - 1 - k.  The same holds of LogTable::previous after LogTable::last.
C19_UpsFromBottomReachTop ==
    /\ (last.key = "up" /\ last.ups >= 1) =>
          /\ Selected = 0 \/ Selected + last.ups <= len - 1
          /\ last.ups = len => Selected = 0
    /\ previous_times(LogTable_last(len), len) = Some(0)

\* C19 witness: as many Up keys as the corpus has rows were issued from the
\* last row with some row expanded, and the selection is on row 0.
C19_Witness ==
    /\ last.key = "up"
    /\ len = MaxNavRows
    /\ last.ups = len
    /\ DOMAIN row_heights # {}
    /\ Selected = 0

\* C20: after a visible row was toggled twice, with a frame of the same size
\* drawn after each toggle, the height budget and the row's flag are what
\* they were before the first toggle, and a row that was collapsed has no
\* override entry.
C20_DoubleToggleRestoresBudget ==
    (/\ last.key = "wrap" /\ last.toggles = 2 /\ last.drawn
     /\ pc # "panic"
     /\ last.row < len
     /\ last.row >= vertical_offset /\ last.row < vertical_offset + last.frame) =>
        /\ height = last.height
        /\ wrapped[last.row + 1] = last.flag
        /\ ~last.flag => last.row \notin DOMAIN row_heights

\* ====================================================================
\* Claims about the text wrapper (checked under SpecText)
\* ====================================================================
RECURSIVE concat(_)
concat(lines) == IF lines = <<>> THEN <<>> ELSE Head(lines) \o concat(Tail(lines))

\* A line holding more than one word: a space with a letter somewhere
\* before it and a letter somewhere after it.
SeveralWords(line) ==
    \E i, j, k \in 1..Len(line) :
        i < j /\ j < k /\ ~is_space(line[i]) /\ is_space(line[j]) /\ ~is_space(line[k])

\* A single word: letters only, at least one.
SingleWord(text) == text # <<>> /\ \A i \in 1..Len(text) : ~is_space(text[i])

\* C21: for every text and every max_width, splitting the text at the
\* indices wrap_indices returns succeeds and the lines, concatenated in
\* order, are the text.
C21_RoundTrip ==
    w_op = "split" => ~w_result.panic /\ concat(w_result.lines) = w_text

\* C22: every line of the wrapped text that holds more than one word is
\* at most max_width long.
C22_SeveralWordsFit ==
    w_op = "split" /\ ~w_result.panic =>
        \A i \in 1..Len(w_result.lines) :
            SeveralWords(w_result.lines[i]) => Len(w_result.lines[i]) <= w_width

\* C23: a text no longer than max_width, the empty text included, gets no
\* split index and comes out as exactly one line equal to the text.
C23_ShortTextOneLine ==
    w_op = "create_text" /\ Len(w_text) <= w_width =>
        /\ ~w_result.panic
        /\ wrap_indices(w_text, w_width) = <<>>
        /\ w_result.lines = <<w_text>>

\* C24: a single word longer than max_width comes out as exactly one
\* line, with no split index and no additional empty line.
C24_LongWordOneLine ==
    w_op = "split" /\ SingleWord(w_text) /\ Len(w_text) > w_width =>
        /\ ~w_result.panic
        /\ w_result.indices = <<>>
        /\ w_result.lines = <<w_text>>

\* ====================================================================
\* Claims about rendering (checked under SpecSearch and SpecNav)
\* ====================================================================
\* The rows of the slice a frame draws.
VisibleRows == { line \in 0..(len - 1) :
                    line >= vertical_offset /\ line < vertical_offset + height }

\* C25: for every matched column of a visible row, the flattened start and
\* end offsets handed to split_string_at_indices satisfy its precondition,
\* the largest of them is smaller than the length of the column's text, so
\* that drawing the highlights does not fail.
C25_HighlightsNeverFail ==
    /\ pc = "run" =>
          \A line \in VisibleRows :
              LET found == get_search_results_for_line(line)
              IN  is_some(found) =>
                     \A c \in unwrap(found).columns :
                         c.index >= column_offset =>
                             split_string_at_indices_ok(text_of(line, c.index),
                                                        flat_positions(c.positions))
    /\ pc = "panic" => last.key = "assert"

\* C26: a Down key pressed above the last row moves the absolute selection
\* down by exactly one row, whatever the height budget and whichever rows
\* are expanded; PageDown, which repeats Down once per row of the budget,
\* moves it down by exactly that many rows when that many rows follow.
C26_DownAdvancesByOne ==
    [][/\ (KeyDown /\ Selected < len - 1) => Selected' = Selected + 1
       /\ (KeyPageDown /\ Selected + height <= len - 1) =>
              Selected' = Selected + height]_vars

\* The rows of the slice a frame of the given viewport draws, the height
\* each is rendered with, and the lines they take beyond one each.
SliceRows(vp) == { line \in 0..(len - 1) :
                     line >= vertical_offset /\ line < vertical_offset + vp.height }

RenderedHeight(line, vp) ==
    as_row(line, column_offset, available_message_width(vp.width, column_offset).v,
           get_search_results_for_line(line)).height

RECURSIVE ExtraHeight(_, _)
ExtraHeight(rows, vp) ==
    IF rows = {} THEN 0
    ELSE LET line == CHOOSE r \in rows : TRUE
         IN  (RenderedHeight(line, vp) - 1) + ExtraHeight(rows \ {line}, vp)

\* C27: right after a frame is drawn, the height budget is the number of
\* table rows of the terminal less the extra lines of the expanded rows of
\* the slice, and so never more than the number of table rows.  Stated for
\* the frames whose rows leave a budget of zero or more.
C27_BudgetAfterDraw ==
    [][(/\ Draw /\ pc' = "run"
        /\ ExtraHeight(SliceRows(viewport'), viewport') <= viewport'.height) =>
           /\ height' = viewport'.height - ExtraHeight(SliceRows(viewport'), viewport')
           /\ height' <= viewport'.height]_vars

\* C28: right after a frame is drawn, every key of row_heights is a row
\* whose wrapped flag is set and whose message is wider than the message
\* column, and every value is more than one.
C28_OverridesAreExpandedRows ==
    [][(Draw /\ pc' = "run") =>
          \A line \in DOMAIN row_heights' :
              /\ line < len
              /\ wrapped[line + 1]
              /\ Len(message_of(line)) >
                    available_message_width(viewport'.width, column_offset).v
              /\ row_heights'[line] > 1]_vars

\* C29: whatever the size of the terminal, the row loop of draw never takes
\* the height budget below zero.
C29_BudgetNeverUnderflows ==
    pc \in {"start", "run"} => \A size \in TermSizes : ~frame(size).of

\* C30: right after a frame is drawn with a height budget of more than
\* zero, the relative selection is smaller than the height budget.  Stated
\* for the frames on which the relative selection is smaller than the
\* number of table rows of the terminal, so that a terminal that has just
\* become smaller is not counted.
C30_SelectionWithinBudget ==
    [][(/\ Draw /\ pc' = "run" /\ height' > 0
        /\ is_some(selected) /\ unwrap(selected) < viewport'.height) =>
           unwrap(selected') < height']_vars

\* ====================================================================
\* Claims about the step rules of the viewport (checked under SpecNav)
\* ====================================================================
\* The override of a row, 1 when it has none.
OverrideOf(line) == IF line \in DOMAIN row_heights THEN row_heights[line] ELSE 1

\* C31: a Down key with the relative selection plus one below the height
\* budget adds one to the relative selection and keeps vertical_offset;
\* otherwise it keeps the relative selection and adds to vertical_offset the
\* override of the row at the old vertical_offset, 1 when it has none.
C31_DownStepRule ==
    [][(KeyDown /\ is_some(selected)) =>
          IF unwrap(selected) + 1 < height
          THEN /\ selected' = Some(unwrap(selected) + 1)
               /\ vertical_offset' = vertical_offset
          ELSE /\ selected' = selected
               /\ vertical_offset' = vertical_offset + OverrideOf(vertical_offset)]_vars

\* C31 witness: a Down key scrolled past an expanded top row, by its
\* override of more than one line, with the relative selection kept.
C31_Witness ==
    /\ last.key = "down"
    /\ last.offset \in DOMAIN row_heights
    /\ row_heights[last.offset] > 1
    /\ vertical_offset = last.offset + row_heights[last.offset]
    /\ selected = last.selected

\* C32: an Up key with the relative selection at 0 keeps it and takes from
\* vertical_offset, down to 0 at most, the override of the row about to
\* re-enter at the top, the row at vertical_offset - 1, 1 when it has none;
\* otherwise it takes one from the relative selection and keeps
\* vertical_offset.
C32_UpStepRule ==
    [][(KeyUp /\ is_some(selected)) =>
          IF unwrap(selected) = 0
          THEN /\ selected' = selected
               /\ vertical_offset' =
                     saturating_sub(vertical_offset, OverrideOf(vertical_offset - 1))
          ELSE /\ selected' = Some(unwrap(selected) - 1)
               /\ vertical_offset' = vertical_offset]_vars

\* ====================================================================
\* Claims about the search jumps and the index (checked under SpecSearch)
\* ====================================================================
\* C33: after a search jump that finds a target, on commit, next-match or
\* previous-match, the absolute selection is the target line and the target
\* is a row of the match index, whether the target was inside the visible
\* window or outside it.
C33_JumpSelectsTarget ==
    [][((KeyCommit \/ KeyNextMatch \/ KeyPrevMatch)
          /\ pc' # "panic" /\ is_some(SelectTarget)) =>
        /\ vertical_offset' + unwrap(selected') = unwrap(SelectTarget)
        /\ \E r \in results' : r.index = unwrap(SelectTarget)]_vars

\* C33 witness: a next-match jump to a row outside the window re-anchored
\* the window from a selection that was not at its top, and the absolute
\* selection is a row of the index.
C33_Witness ==
    /\ last.key = "n"
    /\ pc = "run"
    /\ is_some(last.selected) /\ unwrap(last.selected) > 0
    /\ vertical_offset # last.offset
    /\ Selected \in MatchRows

\* C34: whenever the search mode is Off the match index is empty, so that
\* no row has highlight spans; Esc in Iteration mode clears the index.
C34_OffMeansEmptyIndex ==
    mode = "Off" =>
        /\ results = {}
        /\ \A line \in 0..(len - 1) : get_search_results_for_line(line) = None

\* C35: while the mode stays Iteration no key and no frame changes the
\* match index; from Iteration mode the index changes only with the '/' key
\* that starts a new search.
C35_IndexImmutableInIteration ==
    [][mode = "Iteration" =>
          /\ mode' = "Iteration" => results' = results
          /\ results' # results => KeySlash]_vars

\* C35 witness: next-match has jumped in Iteration mode with a non-empty
\* index, a row expanded and the columns scrolled.
C35_Witness ==
    /\ mode = "Iteration"
    /\ last.key = "n"
    /\ Selected # last.offset + unwrap(last.selected)
    /\ results # {}
    /\ column_offset > 0
    /\ \E i \in 1..len : wrapped[i]

\* ====================================================================
\* Claims about the positions of an index (checked under SpecBuild)
\* ====================================================================
\* The positions of one column: each is an occurrence of the query in the
\* text, and no two of them overlap.
PositionsOf(text, query, positions) ==
    /\ \A p \in positions :
          /\ p[1] < p[2]
          /\ p[2] - p[1] = Len(query)
          /\ p[2] <= Len(text)
          /\ SubSeq(text, p[1] + 1, p[2]) = query
    /\ \A p, q \in positions : p # q => (p[2] <= q[1] \/ q[2] <= p[1])

PositionsIn(index, query) ==
    \A r \in index : \A c \in r.columns :
        PositionsOf(text_of(r.index, c.index), query, c.positions)

\* C36: in the index built for a non-empty query every position of a
\* column is an occurrence of the query within the text, start < end,
\* end - start the length of the query, end at most the length of the text,
\* and the positions of a column do not overlap; the query aa in the text
\* aaa has the single position (0, 2).
C36_PositionsAreOccurrences ==
    (mode = "Iteration" /\ last.key = "commit") =>
        /\ PositionsIn(results, input)
        /\ PositionsIn(State_update(input, texts), input)
        /\ (input = <<"a", "a">> /\ message_of(0) = <<"a", "a", "a">>) =>
              \E r \in results : \E c \in r.columns :
                  c.index = COLUMN_NUMBER - 1 /\ c.positions = {<<0, 2>>}

\* C36 witness: the query aa was committed on a row whose message is aaa,
\* and the message column has one position.
C36_Witness ==
    /\ mode = "Iteration"
    /\ last.key = "commit"
    /\ input = <<"a", "a">>
    /\ message_of(0) = <<"a", "a", "a">>
    /\ \E r \in results : \E c \in r.columns :
          c.index = COLUMN_NUMBER - 1 /\ Cardinality(c.positions) = 1

\* ====================================================================
\* Claims about the records of the index (checked under SpecMatches)
\* ====================================================================
\* C37: two records with the same line_index compare as equal whatever
\* their columns, so an index built from a list of records never holds two
\* records with the same line_index.
C37_LineIndexIsTheKey ==
    \A a, b \in MatchedLines_from(iter(m_matches)) :
        a.index = b.index =>
            /\ ~MatchedLine_lt(a, b) /\ ~MatchedLine_lt(b, a)
            /\ a = b

\* ====================================================================
\* Claims about the navigation of LogTable (checked under SpecTable)
\* ====================================================================
\* C38: for a corpus of any size, the empty one included, no navigation
\* command of LogTable fails on its arithmetic, and with at least one row
\* the selection after any sequence of commands is a row of the corpus.
C38_TableNavigationIsSafe ==
    /\ pc # "panic"
    /\ (is_some(selected) /\ len >= 1) => unwrap(selected) <= len - 1

\* ====================================================================
\* Claims about the lookups at the ends of usize (checked under SpecEdge)
\* ====================================================================
\* C39: for every line index, the largest value of usize included, next
\* and exact return their result without failing on index + 1, none when
\* no record qualifies, and nearest returns none only on an empty index.
C39_LookupsOverWholeRange ==
    /\ m_op = "next" =>
          /\ ~m_result.panic
          /\ IF After(m_index) = {}
             THEN m_result.value = None
             ELSE /\ is_some(m_result.value)
                  /\ unwrap(m_result.value) \in After(m_index)
                  /\ \A r \in After(m_index) : unwrap(m_result.value).index <= r.index
    /\ m_op \in {"exact", "lookup"} =>
          /\ ~m_result.panic
          /\ IF At(m_index) = {}
             THEN m_result.value = None
             ELSE is_some(m_result.value) /\ unwrap(m_result.value) \in At(m_index)
    /\ m_op = "nearest" => (m_result.value = None => m_matches = {})

\* ====================================================================
\* Claims about the output of wrap_indices (checked under SpecText)
\* ====================================================================
\* The indices increase strictly, each is a word boundary of the text
\* below its length, and there is one at least when the text is longer
\* than max_width.
WrapIndicesOf(text, max_width, indices) ==
    /\ \A i \in 1..(Len(indices) - 1) : indices[i] < indices[i + 1]
    /\ \A i \in 1..Len(indices) :
          indices[i] \in word_bound_set(text) /\ indices[i] < Len(text)
    /\ Len(text) > max_width => indices # <<>>

\* C40: for every text and every max_width the indices wrap_indices
\* returns increase strictly, are word boundaries below the length of the
\* text, and are not empty when the text is longer than max_width; so
\* neither the assertion of create_text nor the assertion of
\* split_string_at_indices fails on them.
C40_WrapIndicesAreSafe ==
    /\ w_op = "wrap_indices" => WrapIndicesOf(w_text, w_width, w_result.indices)
    /\ w_op = "create_text" => ~w_result.panic
    /\ w_op = "split" =>
          /\ WrapIndicesOf(w_text, w_width, w_result.indices)
          /\ ~w_result.panic

====
